---- MODULE Spec2Model ----
(***************************************************************************)
(* x-cookies: export of the X (Twitter) session cookies of a browser       *)
(* reached over CDP (main.py) and their re-injection (inject_cookies.py).  *)
(*                                                                         *)
(* Python values are tagged records [k, i, s]: k is the Python type, i the *)
(* integer (or 0/1 of a bool), s the text of a str.  A dict key that is    *)
(* not present is the value Absent, which dict.get turns into its default. *)
(* Strings are TLA+ strings; TLC evaluates Len, \o and SubSeq on them, so  *)
(* the character-level code (str.replace, strptime, strftime) is modelled  *)
(* character by character.                                                 *)
(***************************************************************************)
EXTENDS Integers, Sequences, FiniteSets, TLC

VARIABLES
    prog,        \* which entry point runs: "export" (main.py), "import" (inject_cookies.py)
    pc,          \* position of the run
    username,    \* X_ACCOUNT after strip / args.username
    auth_token,  \* X_AUTH_TOKEN after strip
    now,         \* time.time() of the run, whole seconds
    jar,         \* the browser context's cookie jar, in context.cookies() order
    jar0,        \* the jar when the run started
    nPages,      \* pages open in browser.contexts[0]
    connected,   \* a CDP connection of this run is open
    everConnected, \* connect_over_cdp returned in this run
    browserVar,  \* main()'s local `browser` is bound (not None)
    closeCalls,  \* number of browser.close() calls
    added,       \* the argument lists given to context.add_cookies, in call order
    log,         \* operations performed, in order
    detections,  \* the values is_logged_in returned in this run, in order
    outcomes,    \* what the page did in each is_logged_in call, in order
    cookies,     \* main()'s local `cookies` (extract_cookies result)
    file,        \* the record file <username>_twitter_cookies.json
    file0,       \* the record file when the run started
    written,     \* the payload handed to json.dump by save_cookies in this run
    exc,         \* the exception in flight / last raised ("none" when none)
    pending,     \* how the try block is being left: "none", "return", "fall"
    messages,    \* tags of the log records emitted
    exitCode,    \* process exit status: -1 while running
    args,        \* import: the parsed command line
    data,        \* import: what load_cookies returned
    adapted,     \* import: inject_and_open's local `adapted`
    fn,          \* pure-function harness: which function was applied
    input,       \* pure-function harness: its argument
    output       \* pure-function harness: its result

vars == << prog, pc, username, auth_token, now, jar, jar0, nPages, connected,
           everConnected, browserVar, closeCalls, added, log, detections, outcomes,
           cookies, file, file0, written, exc, pending, messages, exitCode, args, data,
           adapted, fn, input, output >>

-----------------------------------------------------------------------------
(* Python values *)

PyStr(x)  == [k |-> "str",  i |-> 0, s |-> x]
PyInt(n)  == [k |-> "int",  i |-> n, s |-> ""]
PyBool(b) == [k |-> "bool", i |-> IF b THEN 1 ELSE 0, s |-> ""]
PyFloat(n) == [k |-> "float", i |-> n, s |-> ""]   \* the float n.5
PyNone    == [k |-> "None", i |-> 0, s |-> ""]
PyList    == [k |-> "list", i |-> 0, s |-> ""]     \* a non-empty JSON array
Absent    == [k |-> "absent", i |-> 0, s |-> ""]   \* key not in the dict

\* bool(v) / `not v` of Python, for the value kinds above
Truthy(v) ==
    CASE v.k = "str"   -> v.s # ""
      [] v.k = "int"   -> v.i # 0
      [] v.k = "bool"  -> v.i # 0
      [] v.k = "float" -> TRUE
      [] v.k = "list"  -> TRUE
      [] OTHER         -> FALSE

\* dict.get(key, default)
Get(v, default) == IF v.k = "absent" THEN default ELSE v

\* isinstance(v, int): bool is a subclass of int
IsInstanceInt(v) == v.k \in {"int", "bool"}

-----------------------------------------------------------------------------
(* Characters and decimal text *)

Digits == "0123456789"

Char(s, i) == SubSeq(s, i, i)

IsDigit(c) == c \in {"0", "1", "2", "3", "4", "5", "6", "7", "8", "9"}

DigitVal(c) ==
    CASE c = "0" -> 0 [] c = "1" -> 1 [] c = "2" -> 2 [] c = "3" -> 3
      [] c = "4" -> 4 [] c = "5" -> 5 [] c = "6" -> 6 [] c = "7" -> 7
      [] c = "8" -> 8 [] c = "9" -> 9

DigitStr(d) == SubSeq(Digits, d + 1, d + 1)

RECURSIVE AllDigits(_)
AllDigits(s) ==
    IF Len(s) = 0 THEN TRUE
    ELSE IsDigit(Char(s, 1)) /\ AllDigits(SubSeq(s, 2, Len(s)))

RECURSIVE ToInt(_)
ToInt(s) ==
    IF Len(s) = 0 THEN 0
    ELSE 10 * ToInt(SubSeq(s, 1, Len(s) - 1)) + DigitVal(Char(s, Len(s)))

\* %02d and %04d of strftime
Pad2(n) == DigitStr(n \div 10) \o DigitStr(n % 10)
Pad4(n) == Pad2(n \div 100) \o Pad2(n % 100)

\* `ch in s`
RECURSIVE HasChar(_, _)
HasChar(s, ch) ==
    IF Len(s) = 0 THEN FALSE
    ELSE Char(s, 1) = ch \/ HasChar(SubSeq(s, 2, Len(s)), ch)

\* str.replace(ch, ""): every occurrence of the character removed
RECURSIVE RemoveChar(_, _)
RemoveChar(s, ch) ==
    IF Len(s) = 0 THEN ""
    ELSE (IF Char(s, 1) = ch THEN "" ELSE Char(s, 1))
             \o RemoveChar(SubSeq(s, 2, Len(s)), ch)

-----------------------------------------------------------------------------
(* The proleptic Gregorian calendar, as time.gmtime and datetime use it *)

IsLeap(y) == (y % 4 = 0) /\ ((y % 100 # 0) \/ (y % 400 = 0))

DaysInMonth(y, m) ==
    IF m = 2 THEN (IF IsLeap(y) THEN 29 ELSE 28)
    ELSE IF m \in {4, 6, 9, 11} THEN 30 ELSE 31

\* datetime._days_before_year
DaysBeforeYear(y) ==
    (y - 1) * 365 + (y - 1) \div 4 - (y - 1) \div 100 + (y - 1) \div 400

\* datetime._days_before_month
RECURSIVE DaysBeforeMonth(_, _)
DaysBeforeMonth(y, m) ==
    IF m = 1 THEN 0 ELSE DaysBeforeMonth(y, m - 1) + DaysInMonth(y, m - 1)

\* date.toordinal
Ymd2Ord(y, m, d) == DaysBeforeYear(y) + DaysBeforeMonth(y, m) + d

\* datetime(y, m, d, H, M, S, tzinfo=utc).timestamp(), truncated by int()
Timestamp(y, m, d, H, M, S) ==
    (Ymd2Ord(y, m, d) - Ymd2Ord(1970, 1, 1)) * 86400 + H * 3600 + M * 60 + S

\* time.gmtime(t) for t >= 0: the civil date of day number t \div 86400
GmTime(t) ==
    LET days == t \div 86400
        rem  == t % 86400
        z    == days + 719468
        era  == z \div 146097
        doe  == z - era * 146097
        yoe  == (doe - doe \div 1460 + doe \div 36524 - doe \div 146096) \div 365
        doy  == doe - (365 * yoe + yoe \div 4 - yoe \div 100)
        mp   == (5 * doy + 2) \div 153
        d    == doy - (153 * mp + 2) \div 5 + 1
        m    == IF mp < 10 THEN mp + 3 ELSE mp - 9
        y    == yoe + era * 400 + (IF m <= 2 THEN 1 ELSE 0)
    IN  [year |-> y, mon |-> m, mday |-> d,
         hour |-> rem \div 3600, min |-> (rem % 3600) \div 60, sec |-> rem % 60]

\* time.strftime("%Y-%m-%dT%H:%M:%SZ", tm)
StrFTime(tm) ==
    Pad4(tm.year) \o "-" \o Pad2(tm.mon) \o "-" \o Pad2(tm.mday) \o "T"
        \o Pad2(tm.hour) \o ":" \o Pad2(tm.min) \o ":" \o Pad2(tm.sec) \o "Z"

-----------------------------------------------------------------------------
(* main.py: the export record *)

COOKIE_NAMES == << "personalization_id", "kdt", "twid", "ct0", "auth_token", "att" >>

CookieNameSet == { COOKIE_NAMES[i] : i \in 1..Len(COOKIE_NAMES) }

\* get_future_date with the format "%Y-%m-%d": the date without the time
get_future_date_date_only(days, t, jitter) ==
    SubSeq(StrFTime(GmTime(t + days * 24 * 3600 + jitter)), 1, 10)

\* get_future_date(days): time.time() is `t`, random.uniform(0, 3600) is
\* `jitter` (gmtime drops the fraction)
get_future_date(days, t, jitter) ==
    StrFTime(GmTime(t + days * 24 * 3600 + jitter))

\* create_cookie_template without value.replace('"', "")
create_cookie_template_raw(name, value, expires) ==
    [ Name       |-> PyStr(name),
      Value      |-> PyStr(value),
      Path       |-> PyStr(""),
      Domain     |-> PyStr("twitter.com"),
      Expires    |-> PyStr(expires),
      RawExpires |-> PyStr(""),
      MaxAge     |-> PyInt(0),
      Secure     |-> PyBool(FALSE),
      HttpOnly   |-> PyBool(FALSE),
      SameSite   |-> PyInt(0),
      Raw        |-> PyStr(""),
      Unparsed   |-> PyNone ]

create_cookie_template(name, value, expires) ==
    [ Name       |-> PyStr(name),
      Value      |-> PyStr(RemoveChar(value, "\"")),
      Path       |-> PyStr(""),
      Domain     |-> PyStr("twitter.com"),
      Expires    |-> PyStr(expires),
      RawExpires |-> PyStr(""),
      MaxAge     |-> PyInt(0),
      Secure     |-> PyBool(FALSE),
      HttpOnly   |-> PyBool(FALSE),
      SameSite   |-> PyInt(0),
      Raw        |-> PyStr(""),
      Unparsed   |-> PyNone ]

\* cookie_values.get(name, ""): cookie_values is a function on the names it has
ValueOf(cookie_values, name) ==
    IF name \in DOMAIN cookie_values THEN cookie_values[name] ELSE ""

\* build_cookie_payload: jw and jm are the two random jitters drawn by the two
\* get_future_date calls
build_cookie_payload(cookie_values, t, jw, jm) ==
    LET one_week  == get_future_date(7, t, jw)
        one_month == get_future_date(30, t, jm)
    IN  [ i \in 1..Len(COOKIE_NAMES) |->
            LET name == COOKIE_NAMES[i]
                expires == IF name \in {"personalization_id", "kdt"}
                           THEN one_month ELSE one_week
            IN  create_cookie_template(name, ValueOf(cookie_values, name), expires) ]

\* the first cookie with that name and a value that is not empty
FirstMatch_non_empty(cs, name) ==
    IF \E i \in 1..Len(cs) : cs[i].name = name /\ cs[i].value # ""
    THEN CHOOSE i \in 1..Len(cs) :
            /\ cs[i].name = name /\ cs[i].value # ""
            /\ \A j \in 1..(i - 1) : ~(cs[j].name = name /\ cs[j].value # "")
    ELSE 0

\* next((item for item in cookies if item.get("name") == name), None):
\* index of the first cookie of the jar with that name, 0 when there is none
FirstMatch(cs, name) ==
    IF \E i \in 1..Len(cs) : cs[i].name = name
    THEN CHOOSE i \in 1..Len(cs) :
            /\ cs[i].name = name
            /\ \A j \in 1..(i - 1) : cs[j].name # name
    ELSE 0

\* extract_cookies, on the list context.cookies() returned
extract_cookies(cs) ==
    [ name \in CookieNameSet |->
        IF FirstMatch(cs, name) = 0 THEN "" ELSE cs[FirstMatch(cs, name)].value ]

\* the completeness check looking at auth_token alone
Missing_auth_only(cookie_values) ==
    { name \in DOMAIN cookie_values \cap {"auth_token"} : cookie_values[name] = "" }

\* missing = [name for name, value in cookies.items() if not value]
Missing(cookie_values) == { name \in DOMAIN cookie_values : cookie_values[name] = "" }

-----------------------------------------------------------------------------
(* inject_cookies.py: the import adapter *)

\* one field of "%Y-%m-%dT%H:%M:%SZ" as _strptime's regular expression takes
\* it: one or two digits with a value in lo..hi ("00" excluded when lo = 1)
FieldOk(f, lo, hi) ==
    /\ Len(f) \in {1, 2}
    /\ AllDigits(f)
    /\ ToInt(f) >= lo
    /\ ToInt(f) <= hi

\* %d also takes a space followed by one digit 1..9
DayOk(f) ==
    \/ FieldOk(f, 1, 31)
    \/ Len(f) = 2 /\ Char(f, 1) = " " /\ IsDigit(Char(f, 2)) /\ Char(f, 2) # "0"

DayVal(f) == IF Char(f, 1) = " " THEN DigitVal(Char(f, 2)) ELSE ToInt(f)

RECURSIVE FindAny(_, _, _)
FindAny(s, seps, i) ==
    IF i > Len(s) THEN Len(s) + 1
    ELSE IF Char(s, i) \in seps THEN i
    ELSE FindAny(s, seps, i + 1)

NoTime == [ok |-> FALSE, year |-> 0, mon |-> 0, mday |-> 0, hour |-> 0, min |-> 0, sec |-> 0]

\* the datetime constructor on the converted fields: year 1..9999, the day
\* within the month, second 0..59; anything else is ValueError
MakeDateTime(y, m, d, H, M, S) ==
    IF y >= 1 /\ d <= DaysInMonth(y, m) /\ S <= 59
    THEN [ok |-> TRUE, year |-> y, mon |-> m, mday |-> d, hour |-> H, min |-> M, sec |-> S]
    ELSE NoTime

\* the six fields _strptime's regular expression captured, checked against
\* the directive patterns and converted
ConvertFields(fy, fm, fd, fH, fM, fS) ==
    IF /\ Len(fy) = 4 /\ AllDigits(fy)
       /\ FieldOk(fm, 1, 12)
       /\ DayOk(fd)
       /\ FieldOk(fH, 0, 23)
       /\ FieldOk(fM, 0, 59)
       /\ FieldOk(fS, 0, 61)
    THEN MakeDateTime(ToInt(fy), ToInt(fm), DayVal(fd), ToInt(fH), ToInt(fM), ToInt(fS))
    ELSE NoTime

\* the text cut at the literals of the format, found at p2..p6; the year is
\* the first four characters, "-" the fifth, and nothing follows the "Z"
CutFields(ts, p2, p3, p4, p5, p6) ==
    IF Len(ts) >= 5 /\ Char(ts, 5) = "-" /\ p6 = Len(ts)
    THEN ConvertFields(SubSeq(ts, 1, 4), SubSeq(ts, 6, p2 - 1), SubSeq(ts, p2 + 1, p3 - 1),
                       SubSeq(ts, p3 + 1, p4 - 1), SubSeq(ts, p4 + 1, p5 - 1),
                       SubSeq(ts, p5 + 1, p6 - 1))
    ELSE NoTime

Cut5(ts, p2, p3, p4, p5) == CutFields(ts, p2, p3, p4, p5, FindAny(ts, {"Z", "z"}, p5 + 1))
Cut4(ts, p2, p3, p4) == Cut5(ts, p2, p3, p4, FindAny(ts, {":"}, p4 + 1))
Cut3(ts, p2, p3) == Cut4(ts, p2, p3, FindAny(ts, {":"}, p3 + 1))
Cut2(ts, p2) == Cut3(ts, p2, FindAny(ts, {"T", "t"}, p2 + 1))

\* datetime.strptime(ts, "%Y-%m-%dT%H:%M:%SZ"): ok = FALSE is ValueError.
\* The format's literals match without regard to case (re.IGNORECASE).
StrPTime(ts) == Cut2(ts, FindAny(ts, {"-"}, 6))

\* int(datetime(...).replace(tzinfo=timezone.utc).timestamp())
EpochOf(tm) == Timestamp(tm.year, tm.mon, tm.mday, tm.hour, tm.min, tm.sec)

\* the value iso_to_epoch returns for the text of a non-empty str
ParseEpoch(text) == EpochOf(StrPTime(text))

\* iso_to_epoch(ts): raises is the exception that leaves the function
iso_to_epoch(ts) ==
    IF ~Truthy(ts) THEN [raises |-> "none", val |-> 0]
    ELSE IF ts.k # "str" THEN [raises |-> "TypeError", val |-> 0]
    ELSE IF StrPTime(ts.s).ok THEN [raises |-> "none", val |-> ParseEpoch(ts.s)]
    ELSE [raises |-> "none", val |-> 0]

\* same_site_map[v] without the "Lax" default: an unmapped integer gives no label
same_site_map_unmapped(n) ==
    CASE n = 0 -> "Lax" [] n = 1 -> "Strict" [] n = 2 -> "None" [] OTHER -> ""

\* same_site_map.get(v, "Lax") for an int (or bool: True == 1, False == 0)
same_site_map(n) ==
    CASE n = 0 -> "Lax" [] n = 1 -> "Strict" [] n = 2 -> "None" [] OTHER -> "Lax"

SameSiteLabels == {"Lax", "Strict", "None"}

\* lines 82-87: the sameSite entry of `adapted`, Absent once popped;
\* `x not in {..}` hashes x, which raises TypeError for a list
SameSiteOf(cookie) ==
    LET raw == Get(cookie.SameSite, PyNone)
        mapped == IF IsInstanceInt(raw) THEN PyStr(same_site_map(raw.i)) ELSE raw
    IN  IF mapped.k = "list" THEN [raises |-> "TypeError", val |-> mapped]
        ELSE IF mapped.k = "str" /\ mapped.s \in SameSiteLabels
             THEN [raises |-> "none", val |-> mapped]
             ELSE [raises |-> "none", val |-> Absent]

\* the expires entry set without the `expires > 0` test
ExpiresField_always(epoch) == PyInt(epoch)

\* lines 90-93: the expires entry of `adapted` for the epoch iso_to_epoch gave
ExpiresField(epoch) == IF epoch > 0 THEN PyInt(epoch) ELSE Absent

\* `a` alone, without the `or b` default
Or_no_default(a, b) == a

\* `a or b`
Or(a, b) == IF Truthy(a) THEN a ELSE b

NoCookie ==
    [ name |-> Absent, value |-> Absent, domain |-> Absent, path |-> Absent,
      secure |-> Absent, httpOnly |-> Absent, sameSite |-> Absent, expires |-> Absent ]

\* adapt_cookie(cookie): a key that `adapted` does not hold is Absent
adapt_cookie(cookie) ==
    LET ss == SameSiteOf(cookie)
        ex == iso_to_epoch(Get(cookie.Expires, PyNone))
    IN  IF ss.raises # "none" THEN [raises |-> ss.raises, cookie |-> NoCookie]
        ELSE IF ex.raises # "none" THEN [raises |-> ex.raises, cookie |-> NoCookie]
        ELSE [ raises |-> "none",
               cookie |->
                 [ name     |-> Get(cookie.Name, PyStr("")),
                   value    |-> Get(cookie.Value, PyStr("")),
                   domain   |-> Or(Get(cookie.Domain, PyNone), PyStr(".x.com")),
                   path     |-> Or(Get(cookie.Path, PyNone), PyStr("/")),
                   secure   |-> PyBool(Truthy(Get(cookie.Secure, PyBool(TRUE)))),
                   httpOnly |-> PyBool(Truthy(Get(cookie.HttpOnly, PyBool(FALSE)))),
                   sameSite |-> ss.val,
                   expires  |-> ExpiresField(ex.val) ] ]

-----------------------------------------------------------------------------
(* Bounds and the inputs they generate *)

MaxPages == 2      \* pages open in the browser context when the run connects
MaxAbsent == 1     \* CookieSet names the jar holds no cookie for
MaxEntries == 2    \* entries of the record file the import run reads

\* time.time() when the run starts: 2026-11-05T17:53:54Z and
\* 2026-12-31T23:30:00Z (the record's expiry then falls in the next year)
Nows == { 1793901234, 1798759800 }

\* int(random.uniform(0, 3600)) seen through gmtime
Jitters == { 0, 3599 }

\* the value the site gives each cookie; personalization_id is quoted
SiteValue(name) ==
    CASE name = "personalization_id" -> "\"v1_p\""
      [] name = "kdt"                -> "k1"
      [] name = "twid"               -> "u=1"
      [] name = "ct0"                -> "c1"
      [] name = "auth_token"         -> "a1"
      [] name = "att"                -> "t1"

JarCookie(name, value, domain) == [name |-> name, value |-> value, domain |-> domain]

\* the jar order is the browser's, not COOKIE_NAMES order
SiteJar ==
    << JarCookie("guest_id", "g1", ".x.com"),
       JarCookie("ct0", SiteValue("ct0"), ".x.com"),
       JarCookie("auth_token", SiteValue("auth_token"), ".x.com"),
       JarCookie("personalization_id", SiteValue("personalization_id"), ".x.com"),
       JarCookie("twid", SiteValue("twid"), ".x.com"),
       JarCookie("kdt", SiteValue("kdt"), ".x.com"),
       JarCookie("att", SiteValue("att"), ".x.com") >>

Without(cs, names) == SelectSeq(cs, LAMBDA c : c.name \notin names)

\* a second cookie of a CookieSet name, of another domain, before or after
\* the site's own; its value may be empty
ExtraCookies ==
    { JarCookie(n, v, ".twitter.com") : n \in {"ct0", "auth_token"}, v \in {"", "zz"} }

JarSet ==
    LET bases == { Without(SiteJar, a) :
                     a \in { s \in SUBSET CookieNameSet : Cardinality(s) <= MaxAbsent } }
    IN  bases
          \cup { <<e>> \o b : e \in ExtraCookies, b \in bases }
          \cup { b \o <<e>> : e \in ExtraCookies, b \in bases }

NoFile == [kind |-> "absent", entries |-> << >>]

\* a record written by an earlier run
OldFile ==
    [kind |-> "list",
     entries |-> build_cookie_payload([n \in CookieNameSet |-> "old"], 1790000000, 0, 0)]

-----------------------------------------------------------------------------
(* Browser operations shared by the steps *)

\* get_primary_page: closes context.pages[1:], `kept` of them raising (the
\* error is swallowed and the page stays); opens a page when there is none
get_primary_page(n, kept) == IF n = 0 THEN 1 ELSE 1 + kept

KeptSet(n) == IF n <= 1 THEN {0} ELSE 0..(n - 1)

\* is_logged_in: what page.goto and page.wait_for_selector do
DetectOutcomes == { "found", "timeout", "goto_error", "goto_timeout", "wait_error" }

\* the calls is_logged_in makes for an outcome
is_logged_in_calls(out) ==
    IF out \in {"goto_error", "goto_timeout"} THEN << "goto_home" >>
    ELSE << "goto_home", "wait_for_selector" >>

\* is_logged_in with page.goto inside the try block: its timeout is False too
is_logged_in_goto_in_try(out) ==
    CASE out = "found"        -> [raises |-> "none", val |-> TRUE]
      [] out = "timeout"      -> [raises |-> "none", val |-> FALSE]
      [] out = "goto_error"   -> [raises |-> "Error", val |-> FALSE]
      [] out = "goto_timeout" -> [raises |-> "none", val |-> FALSE]
      [] out = "wait_error"   -> [raises |-> "Error", val |-> FALSE]

\* is_logged_in: True, False (PlaywrightTimeoutError of the element wait is
\* caught), or the exception that leaves it; page.goto is called before the
\* try block, so its PlaywrightTimeoutError is not caught
is_logged_in(out) ==
    CASE out = "found"        -> [raises |-> "none", val |-> TRUE]
      [] out = "timeout"      -> [raises |-> "none", val |-> FALSE]
      [] out = "goto_error"   -> [raises |-> "Error", val |-> FALSE]
      [] out = "goto_timeout" -> [raises |-> "TimeoutError", val |-> FALSE]
      [] out = "wait_error"   -> [raises |-> "Error", val |-> FALSE]

\* the cookie login_with_token builds
TokenCookie(token, t) ==
    [ name     |-> PyStr("auth_token"),
      value    |-> PyStr(token),
      domain   |-> PyStr(".x.com"),
      path     |-> PyStr("/"),
      secure   |-> PyBool(TRUE),
      httpOnly |-> PyBool(FALSE),
      sameSite |-> PyStr("Lax"),
      expires  |-> PyInt(t + 365 * 24 * 60 * 60) ]

\* context.add_cookies(list) on the jar: a cookie replaces the one of the
\* same name and domain, or is added
RECURSIVE AddToJar(_, _)
AddToJar(j, cs) ==
    IF cs = << >> THEN j
    ELSE LET c == Head(cs)
             kept == SelectSeq(j, LAMBDA o : ~(o.name = c.name.s /\ o.domain = c.domain.s))
         IN  AddToJar(Append(kept, JarCookie(c.name.s, c.value.s, c.domain.s)), Tail(cs))

-----------------------------------------------------------------------------
(* The state before either entry point runs *)

NoCookies == [n \in {} |-> ""]

InitCommon ==
    /\ pc = "start"
    /\ nPages = 0
    /\ connected = FALSE
    /\ everConnected = FALSE
    /\ browserVar = FALSE
    /\ closeCalls = 0
    /\ added = << >>
    /\ log = << >>
    /\ detections = << >>
    /\ outcomes = << >>
    /\ cookies = NoCookies
    /\ written = << >>
    /\ exc = "none"
    /\ pending = "none"
    /\ messages = {}
    /\ exitCode = -1
    /\ data = << >>
    /\ adapted = << >>
    /\ fn = "none"
    /\ input = << >>
    /\ output = << >>
    /\ jar0 = jar
    /\ file0 = file

InitExport ==
    /\ prog = "export"
    /\ username \in {"", "alice"}
    /\ auth_token \in {"", "tok"}
    /\ now \in Nows
    /\ jar \in JarSet
    /\ file \in {NoFile, OldFile}
    /\ args = [cookie_file |-> FALSE]
    /\ InitCommon

-----------------------------------------------------------------------------
(* main.py: main() *)

Raise(e) ==
    /\ exc' = e
    /\ pc' = "except"

\* lines 215-223: X_ACCOUNT and X_AUTH_TOKEN are read; no account ends the run
main_start ==
    /\ prog = "export" /\ pc = "start"
    /\ IF username = ""
       THEN /\ messages' = messages \cup {"error_no_account"}
            /\ exitCode' = 0
            /\ pc' = "done"
       ELSE /\ messages' = messages \cup
                   (IF auth_token = "" THEN {"warning_no_token"} ELSE {})
            /\ exitCode' = exitCode
            /\ pc' = "playwright"
    /\ UNCHANGED << detections, outcomes, prog, username, auth_token, now, jar, jar0, nPages, connected,
                    everConnected, browserVar, closeCalls, added, log, cookies, file,
                    file0, written, exc, pending, args, data, adapted,
                    fn, input, output >>

\* line 225: sync_playwright().__enter__ starts the driver; its failure is
\* raised outside the try block and leaves main
main_playwright ==
    /\ prog = "export" /\ pc = "playwright"
    /\ \/ /\ log' = Append(log, "playwright_start")
          /\ pc' = "connect"
          /\ UNCHANGED << exc, exitCode >>
       \/ /\ log' = Append(log, "playwright_start")
          /\ exc' = "Error"
          /\ exitCode' = 1
          /\ pc' = "done"
    /\ UNCHANGED << detections, outcomes, prog, username, auth_token, now, jar, jar0, nPages, connected,
                    everConnected, browserVar, closeCalls, added, cookies, file,
                    file0, written, pending, messages, args, data, adapted,
                    fn, input, output >>

\* line 228 with connect_existing_browser (97-108): `browser` of main is bound
\* only when connect_existing_browser returns
main_connect ==
    /\ prog = "export" /\ pc = "connect"
    /\ \/ \* connect_over_cdp raises: nothing was connected
          /\ log' = Append(log, "connect_over_cdp")
          /\ Raise("Error")
          /\ UNCHANGED << connected, everConnected, browserVar, nPages >>
       \/ \* connected, but browser.contexts is empty: RuntimeError (line 103)
          /\ log' = Append(log, "connect_over_cdp")
          /\ connected' = TRUE
          /\ everConnected' = TRUE
          /\ Raise("RuntimeError")
          /\ UNCHANGED << browserVar, nPages >>
       \/ \* connected; the first page, or a new one, is taken
          \E n \in 0..MaxPages :
            /\ log' = Append(log, "connect_over_cdp")
            /\ connected' = TRUE
            /\ everConnected' = TRUE
            /\ browserVar' = TRUE
            /\ nPages' = IF n = 0 THEN 1 ELSE n
            /\ pc' = "detect"
            /\ exc' = exc
    /\ UNCHANGED << detections, outcomes, prog, username, auth_token, now, jar, jar0, closeCalls, added,
                    cookies, file, file0, written, pending, messages, exitCode,
                    args, data, adapted, fn, input, output >>

\* the branch going on to the extraction whatever is_logged_in returned
AfterDetect_always_extract(logged_in, token) == "extract"

\* the branch taken on the token before the login state
AfterDetect_token_first(logged_in, token) ==
    IF token # "" THEN "login"
    ELSE IF logged_in THEN "extract"
    ELSE "return"

\* the branch without the `if not auth_token` test
AfterDetect_no_token_check(logged_in, token) ==
    IF logged_in THEN "extract" ELSE "login"

\* lines 229-236: where main goes on the value of the initial is_logged_in
AfterDetect(logged_in, token) ==
    IF logged_in THEN "extract"
    ELSE IF token = "" THEN "return"
    ELSE "login"

\* lines 229-235: the initial detection and the branch on it
main_detect ==
    /\ prog = "export" /\ pc = "detect"
    /\ \E out \in DetectOutcomes, kept \in KeptSet(nPages) :
         LET r == is_logged_in(out)
             to == AfterDetect(r.val, auth_token)
         IN  /\ nPages' = get_primary_page(nPages, kept)
             /\ log' = log \o is_logged_in_calls(out)
             /\ outcomes' = Append(outcomes, out)
             /\ IF r.raises # "none"
                THEN /\ Raise(r.raises)
                     /\ UNCHANGED << pending, messages, detections >>
                ELSE /\ detections' = Append(detections, r.val)
                     /\ exc' = exc
                     /\ CASE to = "extract" ->
                               /\ messages' = messages \cup {"success_already_logged_in"}
                               /\ pc' = "extract"
                               /\ UNCHANGED pending
                          [] to = "return" ->
                               /\ messages' = messages \cup {"info_try_token", "error_no_token"}
                               /\ pending' = "return"
                               /\ pc' = "finally"
                          [] to = "login" ->
                               /\ messages' = messages \cup {"info_try_token"}
                               /\ pc' = "login"
                               /\ UNCHANGED pending
    /\ UNCHANGED << prog, username, auth_token, now, jar, jar0, connected,
                    everConnected, browserVar, closeCalls, added, cookies, file,
                    file0, written, exitCode, args, data, adapted,
                    fn, input, output >>

\* login_with_token answering True whatever is_logged_in found
login_with_token_unverified(detected) == TRUE

\* login_with_token, lines 159-164: the value returned for what
\* is_logged_in(context) gave after the cookie was installed
login_with_token(detected) == IF detected THEN TRUE ELSE FALSE

\* lines 236-238 with login_with_token (136-164)
main_login ==
    /\ prog = "export" /\ pc = "login"
    /\ \E kept \in KeptSet(nPages) :
       \/ \* page.goto("https://x.com") raises
          /\ nPages' = get_primary_page(nPages, kept)
          /\ log' = Append(log, "goto_base")
          /\ Raise("Error")
          /\ UNCHANGED << jar, added, pending, messages, detections, outcomes >>
       \/ \* context.add_cookies raises
          /\ nPages' = get_primary_page(nPages, kept)
          /\ log' = log \o << "goto_base", "add_cookies" >>
          /\ added' = Append(added, << TokenCookie(auth_token, now) >>)
          /\ Raise("Error")
          /\ UNCHANGED << jar, pending, messages, detections, outcomes >>
       \/ \* the cookie is installed and is_logged_in verifies
          \E out \in DetectOutcomes :
            LET r == is_logged_in(out)
                ret == login_with_token(r.val)
            IN  /\ nPages' = get_primary_page(get_primary_page(nPages, kept), 0)
                /\ log' = log \o << "goto_base", "add_cookies" >> \o is_logged_in_calls(out)
                /\ added' = Append(added, << TokenCookie(auth_token, now) >>)
                /\ jar' = AddToJar(jar, << TokenCookie(auth_token, now) >>)
                /\ outcomes' = Append(outcomes, out)
                /\ IF r.raises # "none"
                   THEN /\ Raise(r.raises)
                        /\ UNCHANGED << pending, messages, detections >>
                   ELSE IF ret
                   THEN /\ detections' = Append(detections, r.val)
                        /\ messages' = messages \cup {"success_login"}
                        /\ pc' = "extract"
                        /\ UNCHANGED << pending, exc >>
                   ELSE /\ detections' = Append(detections, r.val)
                        /\ messages' = messages \cup {"error_locked", "error_login_failed"}
                        /\ pending' = "return"
                        /\ pc' = "finally"
                        /\ exc' = exc
    /\ UNCHANGED << prog, username, auth_token, now, jar0, connected,
                    everConnected, browserVar, closeCalls, cookies, file,
                    file0, written, exitCode, args, data, adapted,
                    fn, input, output >>

\* lines 239-245 with extract_cookies (84-94)
main_extract ==
    /\ prog = "export" /\ pc = "extract"
    /\ \/ \* context.cookies() raises
          /\ log' = Append(log, "cookies")
          /\ Raise("Error")
          /\ UNCHANGED << cookies, pending, messages >>
       \/ /\ log' = Append(log, "cookies")
          /\ cookies' = extract_cookies(jar)
          /\ IF Missing(cookies') # {}
             THEN /\ messages' = messages \cup {"error_missing"}
                  /\ pending' = "return"
                  /\ pc' = "finally"
             ELSE /\ pc' = "save"
                  /\ UNCHANGED << pending, messages >>
          /\ exc' = exc
    /\ UNCHANGED << detections, outcomes, prog, username, auth_token, now, jar, jar0, nPages, connected,
                    everConnected, browserVar, closeCalls, added, file,
                    file0, written, exitCode, args, data, adapted,
                    fn, input, output >>

\* lines 246-247 with build_cookie_payload (66-73) and save_cookies (76-81)
main_save ==
    /\ prog = "export" /\ pc = "save"
    /\ \E jw \in Jitters, jm \in Jitters :
       LET payload == build_cookie_payload(cookies, now, jw, jm)
       IN  \/ \* output_path.open("w") raises: nothing is written
              /\ log' = Append(log, "save_cookies")
              /\ Raise("OSError")
              /\ UNCHANGED << file, written, messages >>
           \/ \* the file is opened (and so truncated) and the write fails
              /\ log' = Append(log, "save_cookies")
              /\ file' = [kind |-> "notjson", entries |-> << >>]
              /\ Raise("OSError")
              /\ UNCHANGED << written, messages >>
           \/ /\ log' = Append(log, "save_cookies")
              /\ file' = [kind |-> "list", entries |-> payload]
              /\ written' = payload
              /\ messages' = messages \cup {"success_saved"}
              /\ pc' = "smoke"
              /\ exc' = exc
    /\ UNCHANGED << detections, outcomes, prog, username, auth_token, now, jar, jar0, nPages, connected,
                    everConnected, browserVar, closeCalls, added, cookies,
                    file0, pending, exitCode, args, data, adapted,
                    fn, input, output >>

\* line 248 with run_scraper_smoke_test (167-211)
main_smoke ==
    /\ prog = "export" /\ pc = "smoke"
    /\ \/ \* SKIP_SCRAPER_TEST=true
          /\ log' = Append(log, "run_scraper_smoke_test")
          /\ messages' = messages \cup {"info_skip_test"}
          /\ pending' = "fall"
          /\ pc' = "finally"
          /\ exc' = exc
       \/ \* the binary does not exist: FileNotFoundError (line 180)
          /\ log' = Append(log, "run_scraper_smoke_test")
          /\ messages' = messages \cup {"error_binary_missing"}
          /\ Raise("FileNotFoundError")
          /\ UNCHANGED pending
       \/ \* the validator runs and exits 0
          /\ log' = log \o << "run_scraper_smoke_test", "subprocess_run" >>
          /\ messages' = messages \cup {"success_test_passed"}
          /\ pending' = "fall"
          /\ pc' = "finally"
          /\ exc' = exc
       \/ \* subprocess.run cannot execute it: FileNotFoundError (206-208)
          /\ log' = log \o << "run_scraper_smoke_test", "subprocess_run" >>
          /\ messages' = messages \cup {"error_not_executable"}
          /\ Raise("FileNotFoundError")
          /\ UNCHANGED pending
       \/ \* the validator exits non-zero: CalledProcessError (209-211)
          /\ log' = log \o << "run_scraper_smoke_test", "subprocess_run" >>
          /\ messages' = messages \cup {"error_test_failed"}
          /\ Raise("CalledProcessError")
          /\ UNCHANGED pending
    /\ UNCHANGED << detections, outcomes, prog, username, auth_token, now, jar, jar0, nPages, connected,
                    everConnected, browserVar, closeCalls, added, cookies, file,
                    file0, written, exitCode, args, data, adapted,
                    fn, input, output >>

\* an except block that starts the run over from the connection
main_except_retry ==
    /\ prog = "export" /\ pc = "except"
    /\ messages' = messages \cup {"exception"}
    /\ exc' = "none"
    /\ pc' = "connect"
    /\ UNCHANGED << detections, outcomes, prog, username, auth_token, now, jar, jar0, nPages,
                    connected, everConnected, browserVar, closeCalls, added, log,
                    cookies, file, file0, written, pending, exitCode, args, data,
                    adapted, fn, input, output >>

\* an except block that also puts the record file back as it was
main_except_cleanup ==
    /\ prog = "export" /\ pc = "except"
    /\ messages' = messages \cup {"exception"}
    /\ exc' = "none"
    /\ pending' = "fall"
    /\ pc' = "finally"
    /\ file' = file0
    /\ UNCHANGED << detections, outcomes, prog, username, auth_token, now, jar, jar0, nPages,
                    connected, everConnected, browserVar, closeCalls, added, log,
                    cookies, file0, written, exitCode, args, data, adapted,
                    fn, input, output >>

\* lines 249-250: every Exception raised in the try block is logged and dropped
main_except ==
    /\ prog = "export" /\ pc = "except"
    /\ messages' = messages \cup {"exception"}
    /\ exc' = "none"
    /\ pending' = "fall"
    /\ pc' = "finally"
    /\ UNCHANGED << detections, outcomes, prog, username, auth_token, now, jar, jar0, nPages, connected,
                    everConnected, browserVar, closeCalls, added, log, cookies, file,
                    file0, written, exitCode, args, data, adapted,
                    fn, input, output >>

\* lines 251-255: `if browser: browser.close()`, then the with block ends
\* (the driver is stopped, which drops a connection still open), then the
\* closing message unless the try block was left by `return`
main_finally ==
    /\ prog = "export" /\ pc = "finally"
    /\ IF browserVar
       THEN /\ closeCalls' = closeCalls + 1
            /\ log' = log \o << "browser_close", "playwright_stop" >>
       ELSE /\ closeCalls' = closeCalls
            /\ log' = Append(log, "playwright_stop")
    /\ connected' = FALSE
    /\ messages' = messages \cup (IF pending = "fall" THEN {"success_done"} ELSE {})
    /\ exitCode' = 0
    /\ pc' = "done"
    /\ UNCHANGED << detections, outcomes, prog, username, auth_token, now, jar, jar0, nPages,
                    everConnected, browserVar, added, cookies, file,
                    file0, written, exc, pending, args, data, adapted,
                    fn, input, output >>

-----------------------------------------------------------------------------
(* inject_cookies.py: main() *)

\* a record entry holding the keys adapt_cookie reads; the others are not set
Entry(name, value, domain, path, secure, httpOnly, sameSite, expires) ==
    [ Name       |-> name,
      Value      |-> value,
      Path       |-> path,
      Domain     |-> domain,
      Expires    |-> expires,
      RawExpires |-> Absent,
      MaxAge     |-> Absent,
      Secure     |-> secure,
      HttpOnly   |-> httpOnly,
      SameSite   |-> sameSite,
      Raw        |-> Absent,
      Unparsed   |-> Absent ]

\* a JSON object (dict), as opposed to any other JSON value in the list
IsDict(item) == "Name" \in DOMAIN item

\* the entries the record files of the import runs are made of
EntryPool ==
    { create_cookie_template("ct0", "c1", "2026-11-12T18:23:54Z"),
      create_cookie_template("auth_token", "a1", "2026-11-12T18:23:54Z"),
      create_cookie_template("", "x", ""),
      Entry(Absent, PyStr("y"), Absent, Absent, Absent, Absent, Absent, Absent),
      Entry(PyStr("kdt"), PyStr("k1"), Absent, Absent, Absent, Absent, PyList, Absent),
      PyInt(7) }

RECURSIVE SeqsUpTo(_, _)
SeqsUpTo(S, n) ==
    IF n = 0 THEN { << >> }
    ELSE LET shorter == SeqsUpTo(S, n - 1)
         IN  shorter \cup { Append(q, x) : q \in shorter, x \in S }

ImportFiles ==
    { NoFile,
      [kind |-> "notjson", entries |-> << >>],
      [kind |-> "notlist", entries |-> << >>] }
      \cup { [kind |-> "list", entries |-> q] : q \in SeqsUpTo(EntryPool, MaxEntries) }

InitImport ==
    /\ prog = "import"
    /\ username \in {"", "alice"}
    /\ auth_token = ""
    /\ now = 1793901234
    /\ jar = << >>
    /\ file \in ImportFiles
    /\ args \in [cookie_file : BOOLEAN]
    /\ InitCommon

\* an exception (or SystemExit) that nothing catches: the process ends with
\* status 1; leaving the with block stops the driver
Die(e) ==
    /\ exc' = e
    /\ exitCode' = 1
    /\ pc' = "done"

\* resolve_cookie_file (39-47)
import_resolve ==
    /\ prog = "import" /\ pc = "start"
    /\ IF args.cookie_file
       THEN /\ pc' = "load"
            /\ UNCHANGED << exc, exitCode >>
       ELSE IF username = "" \/ file.kind = "absent"
       THEN Die("SystemExit")
       ELSE /\ pc' = "load"
            /\ UNCHANGED << exc, exitCode >>
    /\ UNCHANGED << detections, outcomes, prog, username, auth_token, now, jar, jar0, nPages, connected,
                    everConnected, browserVar, closeCalls, added, log, cookies, file,
                    file0, written, pending, messages, args, data, adapted,
                    fn, input, output >>

\* load_cookies without the isinstance(data, list) test
load_cookies_any_root(f) ==
    CASE f.kind = "absent"  -> [raises |-> "FileNotFoundError", data |-> << >>]
      [] f.kind = "notjson" -> [raises |-> "SystemExit", data |-> << >>]
      [] OTHER              -> [raises |-> "none", data |-> f.entries]

\* load_cookies (50-59): open() of a missing file raises FileNotFoundError,
\* which nothing catches; bad JSON and a non-list root are SystemExit
load_cookies(f) ==
    CASE f.kind = "absent"  -> [raises |-> "FileNotFoundError", data |-> << >>]
      [] f.kind = "notjson" -> [raises |-> "SystemExit", data |-> << >>]
      [] f.kind = "notlist" -> [raises |-> "SystemExit", data |-> << >>]
      [] OTHER              -> [raises |-> "none", data |-> f.entries]

\* main, lines 126-128
import_load ==
    /\ prog = "import" /\ pc = "load"
    /\ log' = Append(log, "open_record")
    /\ LET r == load_cookies(file)
       IN  IF r.raises = "none"
           THEN /\ data' = r.data
                /\ messages' = messages \cup {"info_read"}
                /\ pc' = "connect"
                /\ UNCHANGED << exc, exitCode >>
           ELSE /\ Die(r.raises)
                /\ UNCHANGED << data, messages >>
    /\ UNCHANGED << detections, outcomes, prog, username, auth_token, now, jar, jar0, nPages, connected,
                    everConnected, browserVar, closeCalls, added, cookies, file,
                    file0, written, pending, args, adapted,
                    fn, input, output >>

\* inject_and_open, lines 105-108 with ensure_context (97-101)
inject_connect ==
    /\ prog = "import" /\ pc = "connect"
    /\ \/ \* sync_playwright() cannot start
          /\ log' = Append(log, "playwright_start")
          /\ Die("Error")
          /\ UNCHANGED << connected, everConnected, browserVar, nPages >>
       \/ \* connect_over_cdp raises
          /\ log' = log \o << "playwright_start", "connect_over_cdp", "playwright_stop" >>
          /\ Die("Error")
          /\ UNCHANGED << connected, everConnected, browserVar, nPages >>
       \/ \* connected, but browser.contexts is empty: RuntimeError (line 99)
          /\ log' = log \o << "playwright_start", "connect_over_cdp", "playwright_stop" >>
          /\ everConnected' = TRUE
          /\ browserVar' = TRUE
          /\ connected' = FALSE
          /\ Die("RuntimeError")
          /\ UNCHANGED nPages
       \/ \E n \in 0..MaxPages :
            /\ log' = log \o << "playwright_start", "connect_over_cdp" >>
            /\ everConnected' = TRUE
            /\ browserVar' = TRUE
            /\ connected' = TRUE
            /\ nPages' = IF n = 0 THEN 1 ELSE n
            /\ pc' = "adapt"
            /\ UNCHANGED << exc, exitCode >>
    /\ UNCHANGED << detections, outcomes, prog, username, auth_token, now, jar, jar0, closeCalls, added,
                    cookies, file, file0, written, pending, messages,
                    args, data, adapted, fn, input, output >>

\* the comprehension without its `if item.get("Name")` filter
AdaptAll_unfiltered(items) ==
    IF \E i \in 1..Len(items) : ~IsDict(items[i])
    THEN [raises |-> "AttributeError", list |-> << >>]
    ELSE IF \E i \in 1..Len(items) : adapt_cookie(items[i]).raises # "none"
    THEN [raises |-> "TypeError", list |-> << >>]
    ELSE [raises |-> "none",
          list |-> [ i \in 1..Len(items) |-> adapt_cookie(items[i]).cookie ]]

\* [adapt_cookie(item) for item in cookies if item.get("Name")]: the first
\* item that raises ends the comprehension
RECURSIVE AdaptAll(_)
AdaptAll(items) ==
    IF items = << >> THEN [raises |-> "none", list |-> << >>]
    ELSE LET item == Head(items)
             rest == AdaptAll(Tail(items))
         IN  IF ~IsDict(item) THEN [raises |-> "AttributeError", list |-> << >>]
             ELSE IF ~Truthy(Get(item.Name, PyNone)) THEN rest
             ELSE LET a == adapt_cookie(item)
                  IN  IF a.raises # "none" THEN [raises |-> a.raises, list |-> << >>]
                      ELSE IF rest.raises # "none" THEN rest
                      ELSE [raises |-> "none", list |-> << a.cookie >> \o rest.list]

\* inject_and_open, lines 110-112
inject_adapt ==
    /\ prog = "import" /\ pc = "adapt"
    /\ LET r == AdaptAll(data)
       IN  IF r.raises # "none"
           THEN /\ Die(r.raises)
                /\ connected' = FALSE
                /\ log' = Append(log, "playwright_stop")
                /\ UNCHANGED adapted
           ELSE IF r.list = << >>
           THEN /\ Die("SystemExit")
                /\ connected' = FALSE
                /\ log' = Append(log, "playwright_stop")
                /\ UNCHANGED adapted
           ELSE /\ adapted' = r.list
                /\ pc' = "add"
                /\ UNCHANGED << exc, exitCode, connected, log >>
    /\ UNCHANGED << detections, outcomes, prog, username, auth_token, now, jar, jar0, nPages,
                    everConnected, browserVar, closeCalls, added, cookies, file,
                    file0, written, pending, messages, args, data,
                    fn, input, output >>

\* inject_and_open, lines 114-116
inject_add ==
    /\ prog = "import" /\ pc = "add"
    /\ \/ \* page.context.add_cookies raises
          /\ log' = log \o << "add_cookies", "playwright_stop" >>
          /\ added' = Append(added, adapted)
          /\ Die("Error")
          /\ connected' = FALSE
          /\ UNCHANGED << jar, messages >>
       \/ /\ log' = Append(log, "add_cookies")
          /\ added' = Append(added, adapted)
          /\ jar' = AddToJar(jar, adapted)
          /\ messages' = messages \cup {"success_injected"}
          /\ pc' = "goto"
          /\ UNCHANGED << exc, exitCode, connected >>
    /\ UNCHANGED << detections, outcomes, prog, username, auth_token, now, jar0, nPages,
                    everConnected, browserVar, closeCalls, cookies, file,
                    file0, written, pending, args, data, adapted,
                    fn, input, output >>

\* inject_and_open, lines 118-120: browser.close() is the last statement
inject_goto ==
    /\ prog = "import" /\ pc = "goto"
    /\ \/ \* page.goto raises
          /\ log' = log \o << "goto_base", "playwright_stop" >>
          /\ Die("Error")
          /\ connected' = FALSE
          /\ UNCHANGED << closeCalls, messages >>
       \/ /\ log' = log \o << "goto_base", "browser_close", "playwright_stop" >>
          /\ closeCalls' = closeCalls + 1
          /\ connected' = FALSE
          /\ messages' = messages \cup {"success_opened"}
          /\ exitCode' = 0
          /\ pc' = "done"
          /\ exc' = exc
    /\ UNCHANGED << detections, outcomes, prog, username, auth_token, now, jar, jar0, nPages,
                    everConnected, browserVar, added, cookies, file,
                    file0, written, pending, args, data, adapted,
                    fn, input, output >>

-----------------------------------------------------------------------------
(* The two programs *)

Init == InitExport \/ InitImport

Next ==
    \/ main_start
    \/ main_playwright
    \/ main_connect
    \/ main_detect
    \/ main_login
    \/ main_extract
    \/ main_save
    \/ main_smoke
    \/ main_except
    \/ main_finally
    \/ import_resolve
    \/ import_load
    \/ inject_connect
    \/ inject_adapt
    \/ inject_add
    \/ inject_goto

Spec == Init /\ [][Next]_vars

-----------------------------------------------------------------------------
(* The adapter functions applied to single inputs *)

\* civil times <<year, month, day, hour, minute, second>> around the epoch,
\* the year's end, leap days and the end of the 32-bit range
CivilDates ==
    { <<1969, 12, 31>>, <<1970, 1, 1>>, <<1970, 1, 2>>, <<1999, 12, 31>>,
      <<2000, 2, 29>>, <<2026, 11, 12>>, <<2027, 1, 8>>, <<2028, 2, 29>>,
      <<2037, 12, 31>> }

CivilClocks == { <<0, 0, 0>>, <<0, 0, 1>>, <<18, 23, 54>>, <<23, 59, 59>> }

CivilTimes == { d \o c : d \in CivilDates, c \in CivilClocks }

\* the text YYYY-MM-DDTHH:MM:SSZ of a civil time
FormatCivil(c) ==
    StrFTime([year |-> c[1], mon |-> c[2], mday |-> c[3],
              hour |-> c[4], min |-> c[5], sec |-> c[6]])

\* texts datetime.strptime takes although they are not of the strict form
LenientTexts == { "2026-1-5T1:2:3Z", "2026-11-12t18:00:00z", "2026-11- 2T18:00:00Z" }

\* texts datetime.strptime rejects with ValueError
MalformedTexts ==
    { "garbage", "Z", "2026", "2026-11-12", "2026-11-12 18:00:00Z",
      "2026-11-12T18:00:00", "2026-11-12T18:00:00Z ", " 2026-11-12T18:00:00Z",
      "02026-11-12T18:00:00Z", "2026-011-12T18:00:00Z", "2026-13-01T00:00:00Z",
      "2026-00-12T18:00:00Z", "2026-11-00T18:00:00Z", "2026-02-30T00:00:00Z",
      "2026-11-12T24:00:00Z", "2026-11-12T18:60:00Z", "2026-11-12T18:00:60Z",
      "0000-01-01T00:00:00Z", "1794506400", "2026-11-12T18:00:00+00:00" }

ExpiresInputs ==
    { Absent, PyNone, PyStr(""), PyInt(0), PyInt(5), PyBool(TRUE), PyList }
        \cup { PyStr(FormatCivil(c)) : c \in CivilTimes }
        \cup { PyStr(x) : x \in LenientTexts \cup MalformedTexts }

SameSiteInputs ==
    { Absent, PyNone, PyInt(0), PyInt(1), PyInt(2), PyInt(3), PyInt(5), PyInt(-1),
      PyBool(TRUE), PyBool(FALSE), PyStr("Lax"), PyStr("Strict"), PyStr("None"),
      PyStr("lax"), PyStr(""), PyFloat(1), PyList }

\* the other keys of an entry: <<Name, Value, Domain, Path, Secure, HttpOnly>>
EntryShapes ==
    { << PyStr("ct0"), PyStr("abc"), Absent, Absent, Absent, Absent >>,
      << PyStr("kdt"), PyStr("k1"), PyStr("twitter.com"), PyStr(""),
         PyBool(FALSE), PyBool(FALSE) >>,
      << PyStr(""), Absent, PyStr(""), PyStr("/i"), PyBool(TRUE), PyBool(TRUE) >>,
      << Absent, PyStr("v"), PyNone, PyNone, PyInt(0), PyStr("yes") >> }

AdaptInputs ==
    { Entry(sh[1], sh[2], sh[3], sh[4], sh[5], sh[6], ss, ex) :
        sh \in EntryShapes, ss \in SameSiteInputs, ex \in ExpiresInputs }

InitPure ==
    /\ prog = "pure"
    /\ username = ""
    /\ auth_token = ""
    /\ now = 1793901234
    /\ jar = << >>
    /\ file = NoFile
    /\ args = [cookie_file |-> FALSE]
    /\ InitCommon

\* adapt_cookie(cookie) is called on one entry
apply_adapt_cookie ==
    /\ prog = "pure" /\ pc = "start"
    /\ \E e \in AdaptInputs :
         /\ fn' = "adapt_cookie"
         /\ input' = e
         /\ output' = adapt_cookie(e)
    /\ pc' = "applied"
    /\ UNCHANGED << detections, outcomes, prog, username, auth_token, now, jar, jar0, nPages,
                    connected, everConnected, browserVar, closeCalls, added, log,
                    cookies, file, file0, written, exc, pending, messages, exitCode,
                    args, data, adapted >>

\* time.time() of the export: the epoch itself, a week before a leap day
\* (2020-02-22), the two run times, and late in the 32-bit range
ClockTimes == Nows \cup { 0, 1582329600, 2144000000 }

\* how the values of a mapping are written: as the site gives them, each one
\* wrapped in double quotes, with a double quote inside, only double quotes,
\* or empty
ValueForms == { "site", "wrapped", "inner", "quotes", "empty" }

FormOf(form, v) ==
    CASE form = "site"    -> v
      [] form = "wrapped" -> "\"" \o v \o "\""
      [] form = "inner"   -> SubSeq(v, 1, 1) \o "\"" \o SubSeq(v, 2, Len(v))
      [] form = "quotes"  -> "\"\""
      [] form = "empty"   -> ""

\* the mappings handed to build_cookie_payload: every CookieSet name, or all
\* but a few of them, or none
ValueMaps ==
    { [ n \in CookieNameSet \ a |-> FormOf(form, SiteValue(n)) ] :
        a \in { x \in SUBSET CookieNameSet :
                  Cardinality(x) <= MaxAbsent \/ x = CookieNameSet },
        form \in ValueForms }

\* adapt_cookie on every entry of a payload, as inject_and_open's
\* comprehension applies it
AdaptEach(payload) == [ i \in DOMAIN payload |-> adapt_cookie(payload[i]) ]

\* build_cookie_payload(cookie_values) is called, and adapt_cookie on each
\* entry of what it returned
apply_build_cookie_payload ==
    /\ prog = "pure" /\ pc = "start"
    /\ \E cv \in ValueMaps, t \in ClockTimes, jw \in Jitters, jm \in Jitters :
         LET payload == build_cookie_payload(cv, t, jw, jm)
         IN  /\ fn' = "build_cookie_payload"
             /\ input' = [cookie_values |-> cv, t |-> t, jw |-> jw, jm |-> jm]
             /\ output' = [payload |-> payload, native |-> AdaptEach(payload)]
    /\ pc' = "applied"
    /\ UNCHANGED << detections, outcomes, prog, username, auth_token, now, jar, jar0, nPages,
                    connected, everConnected, browserVar, closeCalls, added, log,
                    cookies, file, file0, written, exc, pending, messages, exitCode,
                    args, data, adapted >>

NextPure ==
    \/ apply_adapt_cookie
    \/ apply_build_cookie_payload

SpecPure == InitPure /\ [][NextPure]_vars

-----------------------------------------------------------------------------
(* Properties *)

Range(q) == { q[i] : i \in 1..Len(q) }

\* extract_cookies returned and some CookieSet name has an empty value
Incomplete ==
    /\ DOMAIN cookies = CookieNameSet
    /\ \E n \in CookieNameSet : cookies[n] = ""

\* C1: in an export run whose extracted mapping has an empty value for some
\* CookieSet name, save_cookies is never called, the record file is neither
\* created nor overwritten, and the smoke test is not invoked.
C1_NoSaveWhenIncomplete ==
    (prog = "export" /\ Incomplete) =>
        /\ "save_cookies" \notin Range(log)
        /\ "run_scraper_smoke_test" \notin Range(log)
        /\ written = << >>
        /\ file = file0

C1_Witness ==
    /\ prog = "export" /\ pc = "done"
    /\ Incomplete /\ cookies["twid"] = "" /\ cookies["ct0"] # ""
    /\ file0 = OldFile /\ file = OldFile

\* C2: an export run that established the CDP connection has closed it
\* exactly once when it ends, on every exit path.
C2_ClosedExactlyOnce ==
    (prog = "export" /\ pc = "done" /\ everConnected) => closeCalls = 1

\* C3: an import run that established the CDP connection has closed it
\* exactly once when it ends, on every exit path.
C3_ClosedExactlyOnce ==
    (prog = "import" /\ pc = "done" /\ everConnected) => closeCalls = 1

\* C4: when the initial detection of an export run returned true, the run
\* never calls add_cookies, leaves the cookie jar as it was, does not enter
\* login_with_token and detects no second time, with or without a token.
C4_NoInjectionWhenLoggedIn ==
    (prog = "export" /\ Len(detections) >= 1 /\ detections[1]) =>
        /\ added = << >>
        /\ jar = jar0
        /\ "add_cookies" \notin Range(log)
        /\ "goto_base" \notin Range(log)
        /\ Len(detections) = 1

C4_Witness ==
    /\ prog = "export" /\ pc = "done"
    /\ detections = << TRUE >>
    /\ auth_token = "tok"
    /\ "save_cookies" \in Range(log)
    /\ jar = jar0

\* C5: when the initial detection returned false and no token is configured,
\* the run aborts: nothing is injected, no second detection, no extraction,
\* no file written.
C5_AbortWithoutToken ==
    (prog = "export" /\ Len(detections) >= 1 /\ ~detections[1] /\ auth_token = "") =>
        /\ pc \in {"finally", "done"}
        /\ "error_no_token" \in messages
        /\ added = << >>
        /\ jar = jar0
        /\ Len(detections) = 1
        /\ "goto_base" \notin Range(log)
        /\ "cookies" \notin Range(log)
        /\ "save_cookies" \notin Range(log)
        /\ file = file0

C5_Witness ==
    /\ prog = "export" /\ pc = "done"
    /\ detections = << FALSE >>
    /\ auth_token = ""
    /\ closeCalls = 1

\* C6: configuration errors end the run before any browser interaction: an
\* empty account identifier in the export run; a missing record file, a
\* record file that is not JSON, or a JSON root that is not a list in the
\* import run (no connection opened, no add_cookies call).
C6_ConfigErrorsBeforeBrowser ==
    /\ (prog = "export" /\ username = "") =>
           /\ pc \in {"start", "done"}
           /\ log = << >>
           /\ ~everConnected
           /\ added = << >>
    /\ (prog = "import" /\ file.kind \in {"absent", "notjson", "notlist"}) =>
           /\ pc \in {"start", "load", "done"}
           /\ "playwright_start" \notin Range(log)
           /\ "connect_over_cdp" \notin Range(log)
           /\ ~everConnected
           /\ added = << >>

C6_Witness ==
    /\ prog = "import" /\ pc = "done"
    /\ file.kind = "notlist"
    /\ exc = "SystemExit"
    /\ log = << "open_record" >>

\* the smoke test of this run failed: binary missing, not executable, or a
\* non-zero exit
SmokeFailed ==
    messages \cap {"error_binary_missing", "error_not_executable", "error_test_failed"} # {}

\* C7: when the smoke test fails after the record was persisted, the failure
\* is reported and the record file still holds exactly what save_cookies wrote.
C7_RecordSurvivesSmokeFailure ==
    (prog = "export" /\ SmokeFailed) =>
        /\ file.kind = "list"
        /\ Len(written) = Len(COOKIE_NAMES)
        /\ file.entries = written
        /\ pc = "done" => "exception" \in messages

C7_Witness ==
    /\ prog = "export" /\ pc = "done"
    /\ "error_test_failed" \in messages
    /\ file0 = NoFile
    /\ file.kind = "list" /\ file.entries = written

\* C8: an export run whose extracted cookie set is incomplete ends without
\* persistence and without an exception leaving main, and its exit status
\* reflects failure: it differs from the status 0 of a successful run.
C8_ExitReflectsFailure ==
    (prog = "export" /\ pc = "done" /\ Incomplete) =>
        /\ exc = "none"
        /\ file = file0
        /\ exitCode # 0

\* C9 as stated: an integer SameSite outside {0, 1, 2} yields a native cookie
\* without a sameSite field.
C9_UnmappedIntegerOmitted ==
    (/\ fn = "adapt_cookie" /\ output.raises = "none"
     /\ input.SameSite.k = "int" /\ input.SameSite.i \notin {0, 1, 2}) =>
        output.cookie.sameSite = Absent

\* C9, amended: an integer SameSite outside {0, 1, 2} yields a native cookie
\* whose sameSite is "Lax".
C9_UnmappedIntegerIsLax ==
    (/\ fn = "adapt_cookie" /\ output.raises = "none"
     /\ input.SameSite.k = "int" /\ input.SameSite.i \notin {0, 1, 2}) =>
        output.cookie.sameSite = PyStr("Lax")

C9_Witness ==
    /\ fn = "adapt_cookie" /\ output.raises = "none"
    /\ input.SameSite = PyInt(5)
    /\ output.cookie.sameSite = PyStr("Lax")

\* the length of a month, and the seconds from 1970-01-01T00:00:00Z to a
\* civil time, counted year by year and month by month
MonthLengths == << 31, 28, 31, 30, 31, 30, 31, 31, 30, 31, 30, 31 >>

YearLength(y) == IF IsLeap(y) THEN 366 ELSE 365

RECURSIVE DaysToYear(_)
DaysToYear(y) ==
    IF y = 1970 THEN 0
    ELSE IF y > 1970 THEN DaysToYear(y - 1) + YearLength(y - 1)
    ELSE DaysToYear(y + 1) - YearLength(y)

RECURSIVE DaysToMonth(_, _)
DaysToMonth(y, m) ==
    IF m = 1 THEN 0
    ELSE DaysToMonth(y, m - 1) + MonthLengths[m - 1]
             + (IF m - 1 = 2 /\ IsLeap(y) THEN 1 ELSE 0)

CivilEpoch(c) ==
    (DaysToYear(c[1]) + DaysToMonth(c[1], c[2]) + c[3] - 1) * 86400
        + c[4] * 3600 + c[5] * 60 + c[6]

\* the Expires of the entry is missing, null, empty, or a text strptime rejects
ExpiresUnusable(e) ==
    \/ e \in {Absent, PyNone, PyStr("")}
    \/ e.k = "str" /\ e.s \in MalformedTexts

\* C10 as stated: no expires field for a missing, empty or unparseable
\* Expires; for every well-formed Expires the field is its UTC epoch seconds,
\* which is greater than 0.
C10_WellFormedAlwaysPositive ==
    (fn = "adapt_cookie" /\ output.raises = "none") =>
        /\ ExpiresUnusable(input.Expires) => output.cookie.expires = Absent
        /\ \A c \in CivilTimes :
              input.Expires = PyStr(FormatCivil(c)) =>
                 /\ CivilEpoch(c) > 0
                 /\ output.cookie.expires = PyInt(CivilEpoch(c))

\* C10, amended: the expires field is never zero or negative; it is absent
\* for a missing, empty or unparseable Expires and for a well-formed Expires
\* at or before 1970-01-01T00:00:00Z; for a well-formed Expires after that
\* instant it is the UTC epoch seconds of the timestamp.
C10_ExpiresOmittedOrPositive ==
    (fn = "adapt_cookie" /\ output.raises = "none") =>
        /\ \/ output.cookie.expires = Absent
           \/ output.cookie.expires.k = "int" /\ output.cookie.expires.i > 0
        /\ ExpiresUnusable(input.Expires) => output.cookie.expires = Absent
        /\ \A c \in CivilTimes :
              input.Expires = PyStr(FormatCivil(c)) =>
                 output.cookie.expires =
                    (IF CivilEpoch(c) > 0 THEN PyInt(CivilEpoch(c)) ELSE Absent)
        /\ input.Expires = PyStr("2028-02-29T23:59:59Z") =>
              output.cookie.expires = PyInt(1835481599)

C10_Witness ==
    /\ fn = "adapt_cookie" /\ output.raises = "none"
    /\ input.Expires = PyStr("1970-01-01T00:00:00Z")
    /\ output.cookie.expires = Absent

\* the civil time written in a text of the fixed form YYYY-MM-DDTHH:MM:SSZ
TextCivil(s) ==
    << ToInt(SubSeq(s, 1, 4)), ToInt(SubSeq(s, 6, 7)), ToInt(SubSeq(s, 9, 10)),
       ToInt(SubSeq(s, 12, 13)), ToInt(SubSeq(s, 15, 16)), ToInt(SubSeq(s, 18, 19)) >>

\* the days build_cookie_payload adds for the i-th name, and the jitter drawn
LifetimeDays(i) == IF COOKIE_NAMES[i] \in {"personalization_id", "kdt"} THEN 30 ELSE 7

JitterOf(i) == IF COOKIE_NAMES[i] \in {"personalization_id", "kdt"} THEN input.jm ELSE input.jw

\* C11: export then import round trip: adapt_cookie applied to each entry of
\* build_cookie_payload(values) yields a native cookie with the entry's name,
\* with sameSite "Lax" (the label of the exported 0), and with an expires
\* field that is the epoch of the instant the entry's Expires text denotes
\* (the export time plus the lifetime and jitter), hence of the same UTC day.
C11_RoundTrip ==
    fn = "build_cookie_payload" =>
        \A i \in 1..Len(COOKIE_NAMES) :
           LET entry == output.payload[i]
               nat == output.native[i]
               instant == input.t + LifetimeDays(i) * 86400 + JitterOf(i)
           IN  /\ nat.raises = "none"
               /\ nat.cookie.name = entry.Name
               /\ nat.cookie.name = PyStr(COOKIE_NAMES[i])
               /\ entry.SameSite = PyInt(0)
               /\ nat.cookie.sameSite = PyStr("Lax")
               /\ nat.cookie.expires.k = "int"
               /\ nat.cookie.expires.i = CivilEpoch(TextCivil(entry.Expires.s))
               /\ nat.cookie.expires.i = instant
               /\ nat.cookie.expires.i \div 86400 = instant \div 86400

\* a payload exported on 2020-02-22 whose one-week entries expire on the leap
\* day and come back with that day's epoch
C11_Witness ==
    /\ fn = "build_cookie_payload"
    /\ input.t = 1582329600 /\ input.jw = 3599
    /\ DOMAIN input.cookie_values = CookieNameSet
    /\ output.payload[4].Expires = PyStr("2020-02-29T00:59:59Z")
    /\ output.native[4].cookie.expires = PyInt(1582937999)
    /\ output.native[4].cookie.sameSite = PyStr("Lax")

\* C12: for every input mapping (lacking names or holding double quotes
\* included) build_cookie_payload returns exactly six entries, one per
\* CookieSet name in the order personalization_id, kdt, twid, ct0,
\* auth_token, att, and no entry's Value contains a double quote.
C12_SixEntriesNoQuote ==
    fn = "build_cookie_payload" =>
        /\ DOMAIN output.payload = 1..6
        /\ [ i \in 1..6 |-> output.payload[i].Name.s ]
              = << "personalization_id", "kdt", "twid", "ct0", "auth_token", "att" >>
        /\ \A i \in 1..6 :
              /\ output.payload[i].Name.k = "str"
              /\ output.payload[i].Value.k = "str"
              /\ ~HasChar(output.payload[i].Value.s, "\"")

\* a mapping without auth_token and with a double quote inside each value
C12_Witness ==
    /\ fn = "build_cookie_payload"
    /\ DOMAIN input.cookie_values = CookieNameSet \ {"auth_token"}
    /\ input.cookie_values["ct0"] = "c\"1"
    /\ output.payload[4].Value = PyStr("c1")
    /\ output.payload[5].Value = PyStr("")

Count(q, x) == Cardinality({ i \in 1..Len(q) : q[i] = x })

\* a step of the export run has failed: an exception was raised, or the run
\* is being left by one of the `return` statements of the try block
StepFailed ==
    /\ prog = "export"
    /\ \/ exc # "none"
       \/ "exception" \in messages
       \/ pending = "return"

\* the operations a step adds to the log are only those closing the connection
OnlyClosing ==
    /\ Len(log') >= Len(log)
    /\ SubSeq(log', 1, Len(log)) = log
    /\ \A i \in (Len(log) + 1)..Len(log') : log'[i] \in {"browser_close", "playwright_stop"}

\* C13: no step of the export run is retried: at most one connection attempt,
\* one installation of the auth_token cookie, two login-state detections, one
\* write of the record file and one invocation of the validator; and once a
\* step has failed the only browser operation that follows is closing the
\* connection.
C13_NoRetry ==
    /\ [](prog = "export" =>
            /\ Count(log, "connect_over_cdp") <= 1
            /\ Count(log, "add_cookies") <= 1
            /\ Len(added) <= 1
            /\ Count(log, "goto_home") <= 2
            /\ Len(detections) <= 2
            /\ Count(log, "save_cookies") <= 1
            /\ Count(log, "run_scraper_smoke_test") <= 1
            /\ Count(log, "subprocess_run") <= 1)
    /\ [][StepFailed => OnlyClosing]_vars

\* a run whose verification after the injection was negative: two detections,
\* one installation, and the connection closed right after
C13_Witness ==
    /\ prog = "export" /\ pc = "done"
    /\ detections = << FALSE, FALSE >>
    /\ Count(log, "add_cookies") = 1
    /\ Count(log, "goto_home") = 2
    /\ log[Len(log) - 1] = "browser_close"
    /\ log[Len(log) - 2] = "wait_for_selector"

\* the position of the first x in q, 0 when there is none
RECURSIVE IndexFrom(_, _, _)
IndexFrom(q, x, i) ==
    IF i > Len(q) THEN 0
    ELSE IF q[i] = x THEN i
    ELSE IndexFrom(q, x, i + 1)

IndexOf(q, x) == IndexFrom(q, x, 1)

\* C14: login_with_token navigates to the base domain, installs exactly one
\* auth_token cookie with one add_cookies call, then runs the detector; what
\* it returns (success reported and the run going on to the extraction, or
\* failure reported and the run abandoned) is the detector's result, and it
\* never returns true without an element wait made after the installation.
C14_LoginAlwaysVerifies ==
    prog = "export" =>
        LET g == IndexOf(log, "goto_base")
            a == IndexOf(log, "add_cookies")
        IN  /\ a # 0 =>
                 /\ g # 0 /\ a = g + 1
                 /\ Len(added) = 1
                 /\ Len(added[1]) = 1
                 /\ added[1][1].name = PyStr("auth_token")
                 /\ added[1][1].value = PyStr(auth_token)
                 /\ \A i \in 1..Len(log) : log[i] = "goto_home" /\ i > g => i = a + 1
            /\ "success_login" \in messages =>
                 /\ a # 0
                 /\ \E j \in (a + 1)..Len(log) : log[j] = "wait_for_selector"
                 /\ detections = << FALSE, TRUE >>
            /\ "error_login_failed" \in messages =>
                 /\ a # 0
                 /\ \E j \in (a + 1)..Len(log) : log[j] = "wait_for_selector"
                 /\ detections = << FALSE, FALSE >>
            /\ Len(detections) = 2 =>
                 /\ a # 0
                 /\ detections[2] => "success_login" \in messages
                 /\ ~detections[2] => "error_login_failed" \in messages
            /\ ("cookies" \in Range(log) /\ g # 0) => detections = << FALSE, TRUE >>

\* a run that installed the token, saw the detector succeed and went on to
\* read the jar
C14_Witness ==
    /\ prog = "export"
    /\ "success_login" \in messages
    /\ detections = << FALSE, TRUE >>
    /\ "cookies" \in Range(log)
    /\ IndexOf(log, "add_cookies") = IndexOf(log, "goto_base") + 1

\* the is_logged_in calls of the run that returned a value
Returned == SelectSeq(outcomes, LAMBDA o : o \in {"found", "timeout"})

\* C15: is_logged_in returns true when the element appears, false when the
\* element wait times out (no exception then), and in no other case: a
\* navigation that fails or times out returns nothing and reaches the caller
\* as an exception, after which the run only closes the connection.
C15_OnlyElementTimeoutIsFalse ==
    prog = "export" =>
        /\ Len(detections) = Len(Returned)
        /\ \A i \in 1..Len(detections) : detections[i] = (Returned[i] = "found")
        /\ \A i \in 1..Len(outcomes) :
              outcomes[i] \notin {"found", "timeout"} =>
                 /\ i = Len(outcomes)
                 /\ exc # "none" \/ "exception" \in messages
                 /\ pc \in {"except", "finally", "done"}
                 /\ "cookies" \notin Range(log)
                 /\ outcomes[i] \in {"goto_error", "goto_timeout"} =>
                       /\ Count(log, "goto_home") = Count(log, "wait_for_selector") + 1
                       /\ \/ "browser_close" \notin Range(log)
                          \/ log[IndexOf(log, "browser_close") - 1] = "goto_home"
        /\ (Len(outcomes) > 0 /\ outcomes[Len(outcomes)] = "timeout" /\ auth_token = "") =>
              "exception" \notin messages /\ exc = "none"

\* the navigation of the initial detection timed out: no value was returned
\* and main's except block was reached with the timeout error
C15_Witness ==
    /\ prog = "export" /\ pc = "except"
    /\ outcomes = << "goto_timeout" >>
    /\ detections = << >>
    /\ exc = "TimeoutError"

\* the Expires of the entry is one adapt_cookie takes without raising
ExpiresTaken(e) == e.k \in {"absent", "None", "str"}

\* C16 as stated: the native cookie has no sameSite or one of the labels
\* Lax, Strict, None: the integers 0, 1, 2 give Lax, Strict, None, any other
\* integer gives Lax, and any value that is not an integer and not one of the
\* three labels (a missing SameSite included) gives a cookie without the field.
C16_SameSiteLabelOrOmitted ==
    (fn = "adapt_cookie" /\ ExpiresTaken(input.Expires)) =>
        LET v == input.SameSite
            isLabel == v.k = "str" /\ v.s \in {"Lax", "Strict", "None"}
        IN  /\ output.raises = "none" =>
                  \/ output.cookie.sameSite = Absent
                  \/ output.cookie.sameSite \in {PyStr("Lax"), PyStr("Strict"), PyStr("None")}
            /\ v = PyInt(0) => output.raises = "none" /\ output.cookie.sameSite = PyStr("Lax")
            /\ v = PyInt(1) => output.raises = "none" /\ output.cookie.sameSite = PyStr("Strict")
            /\ v = PyInt(2) => output.raises = "none" /\ output.cookie.sameSite = PyStr("None")
            /\ (v.k = "int" /\ v.i \notin {0, 1, 2}) =>
                  output.raises = "none" /\ output.cookie.sameSite = PyStr("Lax")
            /\ isLabel => output.raises = "none" /\ output.cookie.sameSite = v
            /\ (v.k # "int" /\ ~isLabel) =>
                  output.raises = "none" /\ output.cookie.sameSite = Absent

\* C17: the native cookie's domain is the entry's Domain when that is not
\* empty and ".x.com" otherwise, its path the entry's Path when not empty and
\* "/" otherwise; secure is true and httpOnly false when the entry has no
\* such key; the entry {Name: ct0, Value: abc, SameSite: 2} gives exactly
\* name ct0, value abc, domain .x.com, path /, secure true, httpOnly false,
\* sameSite None and no expires key.
C17_Defaults ==
    (fn = "adapt_cookie" /\ output.raises = "none") =>
        LET c == output.cookie
            nonEmpty(v) == v.k = "str" /\ v.s # ""
            empty(v) == v \in {Absent, PyNone, PyStr("")}
        IN  /\ nonEmpty(input.Domain) => c.domain = input.Domain
            /\ empty(input.Domain) => c.domain = PyStr(".x.com")
            /\ nonEmpty(input.Path) => c.path = input.Path
            /\ empty(input.Path) => c.path = PyStr("/")
            /\ input.Secure = Absent => c.secure = PyBool(TRUE)
            /\ input.Secure.k = "bool" => c.secure = input.Secure
            /\ input.HttpOnly = Absent => c.httpOnly = PyBool(FALSE)
            /\ input.HttpOnly.k = "bool" => c.httpOnly = input.HttpOnly
            /\ input = Entry(PyStr("ct0"), PyStr("abc"), Absent, Absent, Absent, Absent,
                             PyInt(2), Absent) =>
                  c = [ name |-> PyStr("ct0"), value |-> PyStr("abc"),
                        domain |-> PyStr(".x.com"), path |-> PyStr("/"),
                        secure |-> PyBool(TRUE), httpOnly |-> PyBool(FALSE),
                        sameSite |-> PyStr("None"), expires |-> Absent ]

C17_Witness ==
    /\ fn = "adapt_cookie" /\ output.raises = "none"
    /\ input = Entry(PyStr("ct0"), PyStr("abc"), Absent, Absent, Absent, Absent,
                     PyInt(2), Absent)
    /\ output.cookie.domain = PyStr(".x.com")
    /\ output.cookie.sameSite = PyStr("None")
    /\ output.cookie.expires = Absent

\* C18: extract_cookies reads the jar exactly once and returns a mapping
\* whose keys are exactly the six CookieSet names, for every jar: a name maps
\* to the value of the first cookie of the jar with that name, whatever its
\* domain and whatever a later cookie of the same name holds, and to the
\* empty string when the jar has no cookie of that name.
C18_FirstMatchTotal ==
    prog = "export" =>
        /\ Count(log, "cookies") <= 1
        /\ DOMAIN cookies \in { {}, CookieNameSet }
        /\ DOMAIN cookies = CookieNameSet => Count(log, "cookies") = 1
        /\ ("cookies" \in Range(log) /\ DOMAIN cookies = {}) =>
              exc # "none" \/ "exception" \in messages
        /\ DOMAIN cookies = CookieNameSet =>
              \A n \in CookieNameSet :
                 /\ (\A i \in 1..Len(jar) : jar[i].name # n) => cookies[n] = ""
                 /\ \A i \in 1..Len(jar) :
                       (jar[i].name = n /\ \A j \in 1..(i - 1) : jar[j].name # n)
                          => cookies[n] = jar[i].value

\* a jar whose first ct0 cookie is empty and of another domain, and whose
\* later ct0 cookie holds the site's value: the empty one is taken
C18_Witness ==
    /\ prog = "export"
    /\ DOMAIN cookies = CookieNameSet
    /\ jar[1] = JarCookie("ct0", "", ".twitter.com")
    /\ \E i \in 2..Len(jar) : jar[i] = JarCookie("ct0", "c1", ".x.com")
    /\ cookies["ct0"] = ""
    /\ cookies["kdt"] = "k1"

\* the position of the last x in q, 0 when there is none
LastIndexOf(q, x) ==
    IF x \in Range(q) THEN CHOOSE i \in 1..Len(q) :
                               q[i] = x /\ \A j \in (i + 1)..Len(q) : q[j] # x
    ELSE 0

\* C19: the record file is written only after authentication was confirmed
\* in the same run (the initial detection, or the one login_with_token
\* returns, was true) and after a reading of the jar made later than that
\* confirmation; after a failed connection, a negative verification or an
\* exception raised before save_cookies the file is as it was.
C19_WriteOnlyAfterConfirmedAuth ==
    prog = "export" =>
        LET s == IndexOf(log, "save_cookies")
            x == IndexOf(log, "cookies")
            w == LastIndexOf(log, "wait_for_selector")
        IN  /\ (file # file0 \/ written # << >>) => s # 0
            /\ s # 0 =>
                  /\ detections \in { << TRUE >>, << FALSE, TRUE >> }
                  /\ outcomes[Len(outcomes)] = "found"
                  /\ IndexOf(log, "connect_over_cdp") # 0
                  /\ IndexOf(log, "connect_over_cdp") < w
                  /\ w < x
                  /\ x < s
                  /\ DOMAIN cookies = CookieNameSet
            /\ (detections # << >> /\ ~detections[Len(detections)]) => file = file0
            /\ (Len(outcomes) > 0 /\ outcomes[Len(outcomes)] # "found") => file = file0
            /\ "wait_for_selector" \notin Range(log) => file = file0

\* the record written by a run that was not logged in at first and whose
\* token login was verified
C19_Witness ==
    /\ prog = "export"
    /\ detections = << FALSE, TRUE >>
    /\ written # << >>
    /\ file = [kind |-> "list", entries |-> written]
    /\ file # file0
    /\ IndexOf(log, "cookies") > IndexOf(log, "add_cookies")

\* the entries of the record that have a Name which is not empty
Named(entries) == SelectSeq(entries, LAMBDA e : IsDict(e) /\ Truthy(Get(e.Name, PyNone)))

\* C20: an import run calls add_cookies at most once, with exactly the
\* adapted forms of the record entries whose Name is not empty, in record
\* order, and before it navigates to the site; when no entry has a Name that
\* is not empty it ends without calling add_cookies and without navigating.
C20_InjectAllOrNothing ==
    prog = "import" =>
        LET a == IndexOf(log, "add_cookies")
            g == IndexOf(log, "goto_base")
        IN  /\ Count(log, "add_cookies") <= 1
            /\ Len(added) = Count(log, "add_cookies")
            /\ Len(added) = 1 =>
                  /\ \A i \in 1..Len(data) : IsDict(data[i])
                  /\ Len(added[1]) = Len(Named(data))
                  /\ Len(added[1]) >= 1
                  /\ \A i \in 1..Len(added[1]) :
                        /\ adapt_cookie(Named(data)[i]).raises = "none"
                        /\ added[1][i] = adapt_cookie(Named(data)[i]).cookie
                        /\ added[1][i].name = Named(data)[i].Name
            /\ g # 0 => a # 0 /\ a < g
            /\ jar \in { << >>, AddToJar(<< >>, adapted) }
            /\ (pc \in {"add", "goto", "done"} /\ "connect_over_cdp" \in Range(log)
                   /\ everConnected /\ nPages > 0 /\ Named(data) = << >>) =>
                  /\ a = 0
                  /\ g = 0
                  /\ pc = "done" /\ exitCode = 1
                  /\ jar = << >>

\* a record whose first entry has an empty Name and whose second is ct0:
\* one add_cookies call with the adapted ct0 alone, then the navigation
C20_Witness ==
    /\ prog = "import" /\ pc = "done" /\ exitCode = 0
    /\ Len(data) = 2
    /\ data[1].Name = PyStr("")
    /\ data[2].Name = PyStr("ct0")
    /\ added = << << adapt_cookie(data[2]).cookie >> >>
    /\ IndexOf(log, "goto_base") = IndexOf(log, "add_cookies") + 1

====
